---- MODULE Spec2Model ----
(***************************************************************************)
(* Model of the 2048 rule engine of src/matrix.py (class Cell, class       *)
(* Matrix) with the directions of src/direction.py and the game loop of    *)
(* src/game.py (Game.run).                                                 *)
(*                                                                         *)
(* Python indices are 0-based, TLA+ sequences 1-based: the cell the code   *)
(* writes matrix[y][x] is matrix[y + 1][x + 1] here.  The operators keep   *)
(* the 0-based x and y of the code as their parameters.                    *)
(***************************************************************************)
EXTENDS Integers, Sequences, FiniteSets, TLC

VARIABLES
    width,      \* Matrix.width
    height,     \* Matrix.height
    matrix,     \* Matrix.matrix, a list of rows of cells
    score,      \* Matrix.score
    pc,         \* "ready", or "raised" once a call left by an IndexError
    full,       \* <<b>> when is_full() returned b on this grid, else <<>>
    budget,     \* number of calls the model still explores
    last,       \* history of the last call of move
    calls,      \* history of the calls other than move and is_full
    result      \* <<r>> when Game.run returned r, else <<>>

vars == <<width, height, matrix, score, pc, full, budget, last, calls, result>>

(***************************************************************************)
(* Bounds of the model.                                                    *)
(***************************************************************************)
\* largest width and largest height of a grid
MaxSide == 4
\* largest number of cells (width * height) of a grid played from construction
MaxCellsGame == 6
\* number of calls (move, is_full) explored from a constructed grid
MaxCalls == 2
\* number of calls explored from a constructed 2 x 2 grid
MaxCallsSmall == 3
\* largest number of cells of a grid drawn as the input of one move
MaxCellsGrid == 5
\* the input grids hold 0 or one of 2^1 .. 2^MaxExp
MaxExp == 2
\* largest number of tiles of a square input grid
MaxTiles == 4
\* the square input grids hold 0 or one of 2^1 .. 2^MaxExpSquare
MaxExpSquare == 1
\* number of rotations explored from an input grid
MaxRotations == 4
\* number of additions explored on one cell
MaxAdds == 2
\* number of keys read by the game loop
MaxKeys == 3

\* sides of the square input grids: the lines of the 3 x 3 grid are the
\* shortest in which the order of the merges shows; the 4 x 4 grids of the
\* game are too many to enumerate
SquareSides == {1, 2, 3}

Direction == {"UP", "DOWN", "LEFT", "RIGHT"}

Dims(maxCells) ==
    {d \in (1..MaxSide) \X (1..MaxSide) : d[1] * d[2] <= maxCells}

RECURSIVE Pow2(_)
Pow2(n) == IF n = 0 THEN 1 ELSE 2 * Pow2(n - 1)

TileValues(maxExp) == {0} \cup {Pow2(e) : e \in 1..maxExp}

(***************************************************************************)
(* class Cell                                                              *)
(***************************************************************************)
\* Cell(): the dataclass defaults
Cell == [value |-> 0, added |-> FALSE, moved |-> FALSE, new |-> FALSE]

CellOf(v) == [Cell EXCEPT !.value = v]

\* Cell.__iadd__ once add_value is known
Cell_add(self, add_value) ==
    [value |-> self.value + add_value,
     added |-> IF self.value # 0 /\ add_value # 0 THEN TRUE ELSE self.added,
     moved |-> TRUE,
     new   |-> self.new]

\* Cell.__iadd__(self, other) with other a Cell: add_value is other.value;
\* with other an int, add_value is other and the call is Cell_add(self, other)
Cell_iadd(self, other) == Cell_add(self, other.value)

(***************************************************************************)
(* Python list helpers                                                     *)
(***************************************************************************)
\* reversed(s), s[::-1]
Reverse(s) == [i \in 1..Len(s) |-> s[Len(s) + 1 - i]]

\* list(zip(*rows)): element i is the tuple of the i-th entries of the rows
Zip(rows) == [i \in 1..Len(rows[1]) |-> [j \in 1..Len(rows) |-> rows[j][i]]]

(***************************************************************************)
(* class Matrix                                                            *)
(***************************************************************************)
\* Matrix.find_value: coordinates (x, y), 0-based, in row-major order
find_value(m, value) ==
    LET n == Len(m) * Len(m[1])
        coord(k) == <<(k - 1) % Len(m[1]), (k - 1) \div Len(m[1])>>
        all == [k \in 1..n |-> coord(k)]
    IN  SelectSeq(all, LAMBDA c : m[c[2] + 1][c[1] + 1].value = value)

\* Matrix.add_new_value after free_cells = self.find_value(0): every grid
\* random.choice and random.choices can produce
add_new_value_in(m, free_cells) ==
    IF free_cells = <<>>
    THEN {m}
    ELSE {[m EXCEPT ![free_cells[i][2] + 1][free_cells[i][1] + 1] =
                        [@ EXCEPT !.value = v, !.new = TRUE]] :
            i \in 1..Len(free_cells), v \in {2, 4}}

\* add_new_value with the arguments of random.choices exchanged: the weights
\* (9, 1) are drawn as values
add_new_value_draws_weights(m) ==
    IF find_value(m, 0) = <<>>
    THEN {m}
    ELSE {[m EXCEPT ![find_value(m, 0)[i][2] + 1][find_value(m, 0)[i][1] + 1] =
                        [@ EXCEPT !.value = v, !.new = TRUE]] :
            i \in 1..Len(find_value(m, 0)), v \in {9, 1}}

\* Matrix.add_new_value
add_new_value(m) == add_new_value_in(m, find_value(m, 0))

\* Matrix.get_neighbors (N, S, E, W) for a grid of the given width, height
get_neighbors(m, w, h, x, y) ==
    <<IF y > 0 THEN m[y][x + 1].value ELSE 0,
      IF y < h - 1 THEN m[y + 2][x + 1].value ELSE 0,
      IF x < w - 1 THEN m[y + 1][x + 2].value ELSE 0,
      IF x > 0 THEN m[y + 1][x].value ELSE 0>>

\* value in neighbors, on a tuple of four
value_in(value, neighbors) == \E i \in 1..4 : neighbors[i] = value

\* is_full without its first test, the one for empty cells
is_full_without_empty_test(m, w, h) ==
    \A y \in 0..(h - 1) : \A x \in 0..(w - 1) :
        \/ m[y + 1][x + 1].value = 0
        \/ ~value_in(m[y + 1][x + 1].value, get_neighbors(m, w, h, x, y))

\* Matrix.is_full
is_full(m, w, h) ==
    IF find_value(m, 0) # <<>>
    THEN FALSE
    ELSE \A y \in 0..(h - 1) : \A x \in 0..(w - 1) :
            \/ m[y + 1][x + 1].value = 0
            \/ ~value_in(m[y + 1][x + 1].value, get_neighbors(m, w, h, x, y))

\* rotate_cw with the rows rotated by one place instead of reversed
rotate_cw_rows_shifted(m) == Zip([i \in 1..Len(m) |-> m[(i % Len(m)) + 1]])

\* Matrix.rotate_cw
rotate_cw(m) == Zip(Reverse(m))

\* [list(element)[::-1] for element in rotated][::-1]
reverse_both(rotated) ==
    Reverse([i \in 1..Len(rotated) |-> Reverse(rotated[i])])

\* rotate_ccw without the final [::-1] on the list of rows
rotate_ccw_rows_in_order(m) ==
    [i \in 1..Len(m[1]) |-> Reverse(Zip(Reverse(m))[i])]

\* Matrix.rotate_ccw
rotate_ccw(m) == reverse_both(Zip(Reverse(m)))

\* prepare_cells_to_move without the line cell.new = False
prepare_cells_to_move_keeps_new(m) ==
    [y \in 1..Len(m) |-> [x \in 1..Len(m[y]) |->
        [m[y][x] EXCEPT !.added = FALSE, !.moved = FALSE]]]

\* Matrix.prepare_cells_to_move
prepare_cells_to_move(m) ==
    [y \in 1..Len(m) |-> [x \in 1..Len(m[y]) |->
        [m[y][x] EXCEPT !.added = FALSE, !.moved = FALSE, !.new = FALSE]]]

\* Matrix.has_moved
has_moved(m) == \E y \in 1..Len(m) : \E x \in 1..Len(m[y]) : m[y][x].moved

\* move_cell_to_right with one slip of the pen:
\*   "remerge"   the added flags are not consulted before a merge
\*   "halfscore" the score grows by the value of the moving cell
\*   "minus"     the score is decreased instead of increased
\*   "noclear"   the cell the tile left is not replaced by Cell()
\*   "intomerged" the added flag of the target is not consulted
\*   "assign"    the target takes the value of the moving cell, = for +=
RECURSIVE move_cell_to_right_with(_, _, _, _)
move_cell_to_right_with(slip, self, x, y) ==
    LET source == self.matrix[y + 1][x + 1]
        target == self.matrix[y + 1][x + 2]
    IN  IF \/ target.value = 0
           \/ (/\ \/ slip = "remerge"
                  \/ (slip = "intomerged" /\ ~source.added)
                  \/ (~source.added /\ ~target.added)
               /\ target.value = source.value)
        THEN LET summed == IF slip = "assign"
                           THEN [Cell_iadd(target, source) EXCEPT
                                    !.value = source.value]
                           ELSE Cell_iadd(target, source)
                 gain   == CASE slip = "halfscore" -> source.value
                             [] slip = "minus"     -> 0 - summed.value
                             [] OTHER              -> summed.value
                 after  == [self EXCEPT
                              !.matrix[y + 1][x + 2] = summed,
                              !.matrix[y + 1][x + 1] =
                                  IF slip = "noclear" THEN @ ELSE Cell,
                              !.score = IF summed.added THEN @ + gain ELSE @]
             IN  IF x + 1 >= self.width - 1
                 THEN after
                 ELSE move_cell_to_right_with(slip, after, x + 1, y)
        ELSE self

move_cell_to_right_remerge(self, x, y) ==
    move_cell_to_right_with("remerge", self, x, y)

move_cell_to_right_halfscore(self, x, y) ==
    move_cell_to_right_with("halfscore", self, x, y)

move_cell_to_right_minus(self, x, y) ==
    move_cell_to_right_with("minus", self, x, y)

move_cell_to_right_noclear(self, x, y) ==
    move_cell_to_right_with("noclear", self, x, y)

move_cell_to_right_intomerged(self, x, y) ==
    move_cell_to_right_with("intomerged", self, x, y)

move_cell_to_right_assign(self, x, y) ==
    move_cell_to_right_with("assign", self, x, y)

\* Matrix.move_cell_to_right on self = [matrix, score, width, height, raised]
RECURSIVE move_cell_to_right(_, _, _)
move_cell_to_right(self, x, y) ==
    LET source == self.matrix[y + 1][x + 1]
        target == self.matrix[y + 1][x + 2]
    IN  IF \/ target.value = 0
           \/ (/\ ~source.added
               /\ ~target.added
               /\ target.value = source.value)
        THEN LET summed == Cell_iadd(target, source)
                 after  == [self EXCEPT
                              !.matrix[y + 1][x + 2] = summed,
                              !.matrix[y + 1][x + 1] = Cell,
                              !.score = IF summed.added
                                        THEN @ + summed.value ELSE @]
             IN  IF x + 1 >= self.width - 1
                 THEN after
                 ELSE move_cell_to_right(after, x + 1, y)
        ELSE self

\* The nested loops of Matrix.move, iteration k (0-based) of
\*   for y in range(0, height): for x in reversed(range(0, width)).
\* A list index out of range raises IndexError and ends the loops.
RECURSIVE shift_loop(_, _)
shift_loop(self, k) ==
    IF k >= self.height * self.width
    THEN self
    ELSE LET y == k \div self.width
             x == self.width - 1 - (k % self.width)
         IN  IF y >= Len(self.matrix) \/ x >= Len(self.matrix[y + 1])
             THEN [self EXCEPT !.raised = TRUE]
             ELSE IF self.matrix[y + 1][x + 1].value = 0 \/ x >= self.width - 1
                  THEN shift_loop(self, k + 1)
                  ELSE shift_loop(move_cell_to_right(self, x, y), k + 1)

\* rotate_before with the rotations of UP and DOWN exchanged
rotate_before_exchanged(m, direction) ==
    CASE direction = "UP"    -> rotate_ccw(m)
      [] direction = "DOWN"  -> rotate_cw(m)
      [] direction = "LEFT"  -> rotate_cw(rotate_cw(m))
      [] direction = "RIGHT" -> m

\* the rotations of Matrix.move before the loops
rotate_before(m, direction) ==
    CASE direction = "UP"    -> rotate_cw(m)
      [] direction = "DOWN"  -> rotate_ccw(m)
      [] direction = "LEFT"  -> rotate_cw(rotate_cw(m))
      [] direction = "RIGHT" -> m

\* the rotations of Matrix.move after the loops
rotate_after(m, direction) ==
    CASE direction = "UP"    -> rotate_ccw(m)
      [] direction = "DOWN"  -> rotate_cw(m)
      [] direction = "LEFT"  -> rotate_ccw(rotate_ccw(m))
      [] direction = "RIGHT" -> m

\* Matrix.move after its loops: when they raised, the rotations after them
\* never run
after_loops(looped, direction) ==
    IF looped.raised
    THEN looped
    ELSE [looped EXCEPT !.matrix = rotate_after(@, direction)]

\* Matrix.move up to, and without, the final has_moved/add_new_value:
\* the shift phase
shift_phase(m, sc, w, h, direction) ==
    after_loops(
        shift_loop([matrix |-> rotate_before(prepare_cells_to_move(m), direction),
                    score  |-> sc, width |-> w, height |-> h, raised |-> FALSE],
                   0),
        direction)

(***************************************************************************)
(* State machine                                                           *)
(***************************************************************************)
\* Matrix.__init__ with one call of add_new_value instead of two
Constructed_with_one_tile(w, h) ==
    add_new_value([y \in 1..h |-> [x \in 1..w |-> Cell]])

\* Matrix.__init__(width, height)
Constructed(w, h) ==
    LET empty == [y \in 1..h |-> [x \in 1..w |-> Cell]]
    IN  UNION {add_new_value(m1) : m1 \in add_new_value(empty)}

NoHistory(m) ==
    [kind |-> "init", dir |-> "NONE", before |-> m, beforeScore |-> 0,
     shifted |-> m]

\* a game: the grid as Matrix(width, height) leaves it
Init ==
    /\ \E d \in Dims(MaxCellsGame) : width = d[1] /\ height = d[2]
    /\ matrix \in Constructed(width, height)
    /\ score = 0
    /\ pc = "ready"
    /\ full = <<>>
    /\ budget = MaxCalls
    /\ last = NoHistory(matrix)
    /\ calls = <<>>
    /\ result = <<>>

\* a game on the smallest grid on which every direction slides a tile:
\* Matrix(2, 2)
InitSmall ==
    /\ width = 2 /\ height = 2
    /\ matrix \in Constructed(width, height)
    /\ score = 0
    /\ pc = "ready"
    /\ full = <<>>
    /\ budget = MaxCallsSmall
    /\ last = NoHistory(matrix)
    /\ calls = <<>>
    /\ result = <<>>

\* the grids of w columns and h rows over the given tile values
Grids(w, h, values) ==
    {[y \in 1..h |-> [x \in 1..w |-> CellOf(v[(y - 1) * w + x])]] :
        v \in [1..(w * h) -> values]}

NonEmpty(m) ==
    Cardinality({c \in (1..Len(m)) \X (1..Len(m[1])) : m[c[1]][c[2]].value # 0})

\* a grid holds the two tiles of its construction (one when it has one cell)
\* or more: moves and spawns never leave fewer
EnoughTiles(m) ==
    NonEmpty(m) >= (IF Len(m) * Len(m[1]) = 1 THEN 1 ELSE 2)

\* one move on any grid of at most MaxCellsGrid cells
InitGrid ==
    /\ \E d \in Dims(MaxCellsGrid) : width = d[1] /\ height = d[2]
    /\ matrix \in {m \in Grids(width, height, TileValues(MaxExp)) :
                      EnoughTiles(m)}
    /\ score = 0
    /\ pc = "ready"
    /\ full = <<>>
    /\ budget = 1
    /\ last = NoHistory(matrix)
    /\ calls = <<>>
    /\ result = <<>>

\* one move on any square grid of at most MaxTiles tiles
InitSquare ==
    /\ \E n \in SquareSides : width = n /\ height = n
    /\ matrix \in {m \in Grids(width, height, TileValues(MaxExpSquare)) :
                      EnoughTiles(m) /\ NonEmpty(m) <= MaxTiles}
    /\ score = 0
    /\ pc = "ready"
    /\ full = <<>>
    /\ budget = 1
    /\ last = NoHistory(matrix)
    /\ calls = <<>>
    /\ result = <<>>

\* the game loop on the grid of InitSmall: Game builds
\* Matrix(MATRIX_WIDTH, MATRIX_HEIGHT), 4 x 4, on which no full grid is within
\* reach of a few keys; Game.run reads no dimension
InitGame ==
    /\ width = 2 /\ height = 2
    /\ matrix \in Constructed(width, height)
    /\ score = 0
    /\ pc = "ready"
    /\ full = <<>>
    /\ budget = MaxKeys
    /\ last = NoHistory(matrix)
    /\ calls = <<>>
    /\ result = <<>>

\* cells that differ in value and in every flag
CellSamples ==
    {Cell,
     [value |-> 2, added |-> TRUE, moved |-> TRUE, new |-> FALSE],
     [value |-> 4, added |-> FALSE, moved |-> FALSE, new |-> TRUE]}

\* rotations of any grid of at most MaxCellsGrid cells, whatever its cells
InitRotate ==
    /\ \E d \in Dims(MaxCellsGrid) : width = d[1] /\ height = d[2]
    /\ matrix \in [1..height -> [1..width -> CellSamples]]
    /\ score = 0
    /\ pc = "ready"
    /\ full = <<>>
    /\ budget = MaxRotations
    /\ last = NoHistory(matrix)
    /\ calls = <<>>
    /\ result = <<>>

\* a cell of any value of the bounds and any flags, held as a grid of one cell
InitCell ==
    /\ width = 1 /\ height = 1
    /\ \E v \in TileValues(MaxExp) : \E a \in BOOLEAN, mv \in BOOLEAN, n \in BOOLEAN :
          matrix = <<<<[value |-> v, added |-> a, moved |-> mv, new |-> n]>>>>
    /\ score = 0
    /\ pc = "ready"
    /\ full = <<>>
    /\ budget = MaxAdds
    /\ last = NoHistory(matrix)
    /\ calls = <<>>
    /\ result = <<>>

\* Matrix.move from the end of its shift phase on: the spawn when something
\* moved.  An IndexError leaves the object as it was when the exception left
\* move.
move_ends(shifted, direction) ==
    /\ score' = shifted.score
    /\ IF shifted.raised
       THEN /\ matrix' = shifted.matrix
            /\ pc' = "raised"
       ELSE /\ IF has_moved(shifted.matrix)
               THEN matrix' \in add_new_value(shifted.matrix)
               ELSE matrix' = shifted.matrix
            /\ pc' = "ready"
    /\ last' = [kind |-> "move", dir |-> direction, before |-> matrix,
                beforeScore |-> score, shifted |-> shifted.matrix]

\* Matrix.move(direction), whole: flags reset, rotation, shift, rotation
\* back, then the spawn when something moved
move(direction) ==
    /\ pc = "ready"
    /\ budget > 0
    /\ move_ends(shift_phase(matrix, score, width, height, direction), direction)
    /\ full' = <<>>
    /\ budget' = budget - 1
    /\ UNCHANGED <<width, height, calls, result>>

MoveUp    == move("UP")
MoveDown  == move("DOWN")
MoveLeft  == move("LEFT")
MoveRight == move("RIGHT")

\* Matrix.is_full() called on the grid; is_full changes nothing, a second
\* call on the same grid is not explored
IsFull ==
    /\ pc = "ready"
    /\ budget > 0
    /\ full = <<>>
    /\ full' = <<is_full(matrix, width, height)>>
    /\ budget' = budget - 1
    /\ UNCHANGED <<width, height, matrix, score, pc, last, calls, result>>

\* Matrix.rotate_cw(): the list of rows is replaced, width and height keep
\* their values
RotateCw ==
    /\ pc = "ready"
    /\ budget > 0
    /\ matrix' = rotate_cw(matrix)
    /\ calls' = Append(calls, [op |-> "cw", before |-> matrix])
    /\ budget' = budget - 1
    /\ UNCHANGED <<width, height, score, pc, full, last, result>>

\* Matrix.rotate_ccw()
RotateCcw ==
    /\ pc = "ready"
    /\ budget > 0
    /\ matrix' = rotate_ccw(matrix)
    /\ calls' = Append(calls, [op |-> "ccw", before |-> matrix])
    /\ budget' = budget - 1
    /\ UNCHANGED <<width, height, score, pc, full, last, result>>

NextRotate == RotateCw \/ RotateCcw

\* cell += amount with amount an int: Cell.__iadd__(self, amount)
AddValue ==
    /\ pc = "ready"
    /\ budget > 0
    /\ \E amount \in TileValues(MaxExp) :
          /\ matrix' = [matrix EXCEPT ![1][1] = Cell_add(@, amount)]
          /\ calls' = Append(calls, [op |-> "iadd", before |-> matrix,
                                     amount |-> amount])
    /\ budget' = budget - 1
    /\ UNCHANGED <<width, height, score, pc, full, last, result>>

NextCell == AddValue

Next == MoveUp \/ MoveDown \/ MoveLeft \/ MoveRight \/ IsFull

Spec == Init /\ [][Next]_vars

SpecSmall == InitSmall /\ [][Next]_vars

SpecGrid == InitGrid /\ [][Next]_vars

SpecSquare == InitSquare /\ [][Next]_vars

SpecRotate == InitRotate /\ [][NextRotate]_vars

(***************************************************************************)
(* Game.run: one action per iteration of while True, for the key getch     *)
(* returned.  draw_matrix and draw_score write to the curses windows only. *)
(***************************************************************************)
\* the loop stops after this iteration: the break of key == ord("q") or the
\* break of if self.matrix.is_full()
loop_ends_on_quit_only(key, game_over) == key = "q"

loop_ends(key, game_over) == key = "q" \/ game_over

\* return self.matrix.is_full(), self.matrix.score
run_returns(m, sc) == [game_over |-> is_full(m, width, height), score |-> sc]

\* the iteration from draw_matrix on, after an arrow key or any other key
\* but q: the call of is_full, and the return if the loop stops
after_key(key, direction) ==
    /\ full' = <<is_full(matrix', width, height)>>
    /\ result' = IF loop_ends(key, full'[1])
                 THEN <<run_returns(matrix', score')>>
                 ELSE <<>>
    /\ calls' = Append(calls, [op |-> "key", key |-> key, before |-> matrix,
                               direction |-> direction, checked |-> full'])

\* key == ord("q"): break, then the return
PressQuit ==
    /\ pc = "ready" /\ result = <<>> /\ budget > 0
    /\ result' = IF loop_ends("q", FALSE)
                 THEN <<run_returns(matrix, score)>>
                 ELSE <<>>
    /\ calls' = Append(calls, [op |-> "key", key |-> "q", before |-> matrix,
                               direction |-> "NONE", checked |-> <<>>])
    /\ budget' = budget - 1
    /\ UNCHANGED <<width, height, matrix, score, pc, full, last>>

\* an arrow key: self.matrix.move of its direction, then the rest of the
\* iteration
PressArrow(key, direction) ==
    /\ pc = "ready" /\ result = <<>> /\ budget > 0
    /\ move_ends(shift_phase(matrix, score, width, height, direction), direction)
    /\ after_key(key, direction)
    /\ budget' = budget - 1
    /\ UNCHANGED <<width, height>>

PressUp    == PressArrow("KEY_UP", "UP")
PressDown  == PressArrow("KEY_DOWN", "DOWN")
PressRight == PressArrow("KEY_RIGHT", "RIGHT")
PressLeft  == PressArrow("KEY_LEFT", "LEFT")

\* any other key: no branch of the if/elif chain is taken
PressOther ==
    /\ pc = "ready" /\ result = <<>> /\ budget > 0
    /\ UNCHANGED <<matrix, score, pc, last>>
    /\ after_key("other", "NONE")
    /\ budget' = budget - 1
    /\ UNCHANGED <<width, height>>

NextGame ==
    PressQuit \/ PressUp \/ PressDown \/ PressRight \/ PressLeft \/ PressOther

SpecCell == InitCell /\ [][NextCell]_vars

SpecGame == InitGame /\ [][NextGame]_vars

(***************************************************************************)
(* Reference definitions the properties are stated with.  None of them     *)
(* uses the operators of class Matrix.                                     *)
(***************************************************************************)
RowValues(row) == [x \in 1..Len(row) |-> row[x].value]

Values(m) == [y \in 1..Len(m) |-> RowValues(m[y])]

Cells(m) == {c \in (1..Len(m)) \X (1..Len(m[1])) : TRUE}

\* number of cells whose merged flag (Cell.added) is set
Merged(m) == Cardinality({c \in Cells(m) : m[c[1]][c[2]].added})

\* number of cells whose spawned flag (Cell.new) is set
Spawned(m) == Cardinality({c \in Cells(m) : m[c[1]][c[2]].new})

RECURSIVE SumOver(_, _)
SumOver(S, m) ==
    IF S = {} THEN 0
    ELSE LET c == CHOOSE c \in S : TRUE
         IN  m[c[1]][c[2]].value + SumOver(S \ {c}, m)

\* sum of the values of the cells whose merged flag is set
MergedSum(m) == SumOver({c \in Cells(m) : m[c[1]][c[2]].added}, m)

\* The classic 2048 reduction of a line of values whose wall is at the end:
\* the tiles are compacted in their order, then equal neighbours are paired
\* from the wall, each tile in at most one pair.
Compact(line) == SelectSeq(line, LAMBDA v : v # 0)

RECURSIVE MergeFromWall(_)
MergeFromWall(t) ==
    LET n == Len(t)
    IN  IF n <= 1 THEN t
        ELSE IF t[n] = t[n - 1]
             THEN Append(MergeFromWall(SubSeq(t, 1, n - 2)), 2 * t[n])
             ELSE Append(MergeFromWall(SubSeq(t, 1, n - 1)), t[n])

PadLeft(t, n) ==
    [i \in 1..n |-> IF i <= n - Len(t) THEN 0 ELSE t[i - (n - Len(t))]]

ClassicLine(line) == PadLeft(MergeFromWall(Compact(line)), Len(line))

\* column x (1-based) of a grid of values, top to bottom
Column(v, x) == [y \in 1..Len(v) |-> v[y][x]]

\* number of lines a move in direction d slides
NumLines(v, d) == IF d \in {"LEFT", "RIGHT"} THEN Len(v) ELSE Len(v[1])

\* line i of a grid of values for direction d, the edge it slides to last
Line(v, d, i) ==
    CASE d = "RIGHT" -> v[i]
      [] d = "LEFT"  -> Reverse(v[i])
      [] d = "DOWN"  -> Column(v, i)
      [] d = "UP"    -> Reverse(Column(v, i))

\* the slid lines put back in a grid of w columns and h rows
Placed(slid, d, w, h) ==
    [y \in 1..h |-> [x \in 1..w |->
        CASE d = "RIGHT" -> slid[y][x]
          [] d = "LEFT"  -> slid[y][w + 1 - x]
          [] d = "DOWN"  -> slid[x][y]
          [] d = "UP"    -> slid[x][h + 1 - y]]]

\* sliding every line of a grid of values directly toward the edge of d
Direct(v, d) ==
    Placed([i \in 1..NumLines(v, d) |-> ClassicLine(Line(v, d, i))],
           d, Len(v[1]), Len(v))

\* no tile of the grid can slide into an empty cell and no two tiles can
\* merge in direction d
NoLegalShift(v, d) ==
    \A i \in 1..NumLines(v, d) :
        LET l == Line(v, d, i)
        IN  \A k \in 1..(Len(l) - 1) :
                l[k] # 0 => (l[k + 1] # 0 /\ l[k + 1] # l[k])

\* full grid without two equal neighbours
NoMovePossible(v) ==
    /\ \A y \in 1..Len(v) : \A x \in 1..Len(v[1]) : v[y][x] # 0
    /\ \A y \in 1..Len(v) : \A x \in 1..(Len(v[1]) - 1) : v[y][x] # v[y][x + 1]
    /\ \A y \in 1..(Len(v) - 1) : \A x \in 1..Len(v[1]) : v[y][x] # v[y + 1][x]

Moved == last.kind = "move"

(***************************************************************************)
(* Properties                                                              *)
(***************************************************************************)

\* C1: the shift phase of move(RIGHT) turns every row into its classic 2048
\* reduction: tiles compacted against the right wall in their order, equal
\* neighbours merged from the right wall, each tile in at most one merge.
C1_ShiftRightIsClassic ==
    (Moved /\ last.dir = "RIGHT") =>
        \A y \in 1..Len(last.before) :
            RowValues(last.shifted[y]) = ClassicLine(RowValues(last.before[y]))

\* C1 witness: the row [2,2,2,0] moved RIGHT became [0,0,2,4].
C1_Witness ==
    /\ Moved /\ last.dir = "RIGHT"
    /\ RowValues(last.before[1]) = <<2, 2, 2, 0>>
    /\ RowValues(last.shifted[1]) = <<0, 0, 2, 4>>

\* C2: a move in a direction in which no tile can slide and no two tiles can
\* merge leaves every cell value and the score unchanged, every moved flag
\* false, and spawns no tile.
C2_NoLegalShiftIsNoOp ==
    (Moved /\ NoLegalShift(Values(last.before), last.dir)) =>
        /\ Values(matrix) = Values(last.before)
        /\ score = last.beforeScore
        /\ ~has_moved(matrix)
        /\ Spawned(matrix) = 0

\* the part of C2 the code keeps: the same, for a call of move that returned
MoveReturned_NoLegalShiftIsNoOp ==
    pc = "ready" => C2_NoLegalShiftIsNoOp

\* the frame the shift phase worked in: the rotation is not undone when the
\* loops raise
ShiftFrame(m) ==
    IF pc = "raised" THEN rotate_before(m, last.dir) ELSE m

ShiftChanged ==
    Moved /\ Values(last.shifted) # Values(ShiftFrame(last.before))

\* exactly one cell, empty after the shift, now holds 2 or 4 and is the only
\* cell with the spawned flag; every other cell is as the shift left it
OneSpawn ==
    /\ Len(matrix) = Len(last.shifted)
    /\ Len(matrix[1]) = Len(last.shifted[1])
    /\ \E c \in Cells(matrix) :
          /\ last.shifted[c[1]][c[2]].value = 0
          /\ matrix[c[1]][c[2]].value \in {2, 4}
          /\ matrix[c[1]][c[2]].new
          /\ \A o \in Cells(matrix) \ {c} :
                matrix[o[1]][o[2]] = last.shifted[o[1]][o[2]]
    /\ Spawned(matrix) = 1

\* C3: when the shift phase of a move changes a cell value, the move ends
\* with exactly one successful spawn into a cell the shift left empty, and
\* nothing else is changed by the spawn; on a grid without empty cell
\* add_new_value changes nothing.
C3_ShiftThenOneSpawn ==
    /\ ShiftChanged => OneSpawn
    /\ (pc = "ready" /\ find_value(matrix, 0) = <<>>) =>
            add_new_value(matrix) = {matrix}

\* the part of C3 the code keeps: the same, for a call of move that returned
MoveReturned_ShiftThenOneSpawn ==
    pc = "ready" => C3_ShiftThenOneSpawn

\* C4: the score after a move is the score before plus the post-merge
\* values of the merges of the move, each merge once (as many merged cells
\* as tiles the shift took away), slides adding nothing.
C4_ScoreIsSumOfMerges ==
    Moved =>
        /\ score = last.beforeScore + MergedSum(last.shifted)
        /\ Merged(last.shifted) = NonEmpty(last.before) - NonEmpty(last.shifted)

\* C4 witness: the row [2,2,4,4] moved RIGHT added 4 + 8 = 12.
C4_Witness ==
    /\ Moved /\ last.dir = "RIGHT"
    /\ RowValues(last.before[1]) = <<2, 2, 4, 4>>
    /\ RowValues(last.shifted[1]) = <<0, 0, 4, 8>>
    /\ score = last.beforeScore + 12

\* C5: from construction on, over any sequence of moves, the score is never
\* negative and never below the score before the last move.
C5_ScoreNeverDecreases ==
    /\ score >= 0
    /\ score >= last.beforeScore
    /\ last.beforeScore >= 0

\* C5 witness: a second merging move raised a score that was positive.
C5_Witness ==
    Moved /\ last.beforeScore > 0 /\ score > last.beforeScore

\* C6: the number of non-empty cells after a move is the number before,
\* minus the number of merges of the move, plus 1 if a tile moved.
C6_TileCount ==
    Moved =>
        NonEmpty(matrix) = NonEmpty(last.before) - Merged(last.shifted)
                           + (IF has_moved(last.shifted) THEN 1 ELSE 0)

\* the part of C6 the code keeps: the same, for a call of move that returned
MoveReturned_TileCount ==
    pc = "ready" => C6_TileCount

\* C7 as stated: after a move the number of non-empty cells is the number
\* before or one more, never less.
C7_CountEqualOrOneMore ==
    Moved =>
        NonEmpty(matrix) \in {NonEmpty(last.before), NonEmpty(last.before) + 1}

\* C7 amended: after a move the number of non-empty cells is at most one
\* more than before, and it is the number before minus the merges of the
\* move plus the tiles it spawned (0 or 1), so two merges make it decrease.
C7_CountAtMostOneMore ==
    Moved =>
        /\ NonEmpty(matrix) <= NonEmpty(last.before) + 1
        /\ Spawned(matrix) \in {0, 1}
        /\ NonEmpty(matrix) =
              NonEmpty(last.before) - Merged(last.shifted) + Spawned(matrix)
        /\ Merged(last.shifted) >= 2 => NonEmpty(matrix) < NonEmpty(last.before)

\* C7 witness: a move with two merges left fewer tiles than before.
C7_Witness ==
    /\ Moved
    /\ Merged(last.shifted) = 2
    /\ Spawned(matrix) = 1
    /\ NonEmpty(matrix) = NonEmpty(last.before) - 1

\* C8: on a grid of any positive width and height every move runs to its
\* end without an out-of-range access.
C8_MoveNeverRaises ==
    pc # "raised"

\* C9: is_full() is true exactly when no cell is empty and no cell has the
\* value of its north, south, east or west neighbour.
C9_IsFullIsTerminal ==
    full # <<>> => (full[1] <=> NoMovePossible(Values(matrix)))

\* C9 witness: is_full() answered true on a full grid of at least 2 x 2.
C9_Witness ==
    /\ full = <<TRUE>>
    /\ width >= 2 /\ height >= 2

\* C10: on a square grid the cell values after the shift phase of a move are
\* those of sliding every line directly toward the named edge, the pair
\* next to that edge merging first, and the grid has its orientation back.
C10_RotationIsDirectSlide ==
    (Moved /\ width = height) =>
        /\ pc = "ready"
        /\ Values(last.shifted) = Direct(Values(last.before), last.dir)
        /\ Len(matrix) = height
        /\ \A y \in 1..height : Len(matrix[y]) = width

\* C10 witness: a column 2,2,2 moved UP became 4,2,0.
C10_Witness ==
    /\ Moved /\ last.dir = "UP" /\ width = 3 /\ height = 3
    /\ \E x \in 1..3 :
          /\ Column(Values(last.before), x) = <<2, 2, 2>>
          /\ Column(Values(last.shifted), x) = <<4, 2, 0>>

\* the operations of the last n calls, oldest first
LastOps(n) ==
    [i \in 1..n |-> calls[Len(calls) - n + i].op]

\* the grid before the last n calls
GridBefore(n) == calls[Len(calls) - n + 1].before

\* C11: on a grid of any width and height, rotate_cw then rotate_ccw, and
\* rotate_ccw then rotate_cw, leave every cell, value and flags, at the
\* coordinate it had.
C11_RotationsAreInverse ==
    (Len(calls) >= 2 /\ LastOps(2) \in {<<"cw", "ccw">>, <<"ccw", "cw">>}) =>
        matrix = GridBefore(2)

\* C11 witness: a grid of 1 x 3 or 3 x 1 of three different cells is back
\* after rotate_cw, rotate_ccw, having been another list in between.
C11_Witness ==
    /\ Len(calls) >= 2 /\ LastOps(2) = <<"cw", "ccw">>
    /\ width * height = 3
    /\ Cardinality({matrix[c[1]][c[2]] : c \in Cells(matrix)}) = 3
    /\ matrix = GridBefore(2)
    /\ matrix # GridBefore(1)

\* C12: four rotate_cw in a row give back the grid: the same dimensions and
\* the same value at every coordinate.
C12_FourRotationsAreIdentity ==
    (Len(calls) >= 4 /\ LastOps(4) = <<"cw", "cw", "cw", "cw">>) =>
        /\ Len(matrix) = Len(GridBefore(4))
        /\ \A y \in 1..Len(matrix) : Len(matrix[y]) = Len(GridBefore(4)[y])
        /\ Values(matrix) = Values(GridBefore(4))

\* C12 witness: a 2 x 2 grid of more than one value is back after four
\* rotate_cw, and was different after three.
C12_Witness ==
    /\ Len(calls) >= 4 /\ LastOps(4) = <<"cw", "cw", "cw", "cw">>
    /\ width = 2 /\ height = 2
    /\ Values(matrix) = Values(GridBefore(4))
    /\ Values(matrix) # Values(GridBefore(1))

\* the last call was cell += amount
Added == Len(calls) >= 1 /\ calls[Len(calls)].op = "iadd"

\* what the addition is to do to the cell b, given the amount a
AddValueContract(b, a, c) ==
    /\ c.value = b.value + a
    /\ c.moved = (b.moved \/ a # 0)
    /\ c.added = (b.added \/ (b.value # 0 /\ a # 0))
    /\ c.new = b.new
    /\ (b = Cell /\ a = 0) => c = Cell

\* C13: the addition adds the amount to the value, sets the moved flag only
\* when the amount is not 0, sets the merged flag exactly when the value
\* before and the amount are both not 0, and adding 0 to an empty cell sets
\* no flag and leaves the value 0.
C13_AddValueFlags ==
    Added => AddValueContract(GridBefore(1)[1][1], calls[Len(calls)].amount,
                              matrix[1][1])

\* the part of C13 the code keeps: the same, for an amount that is not 0
AmountNotZero_AddValueFlags ==
    (Added /\ calls[Len(calls)].amount # 0) => C13_AddValueFlags

(***************************************************************************)
(* The classic reduction with the tiles followed: which tiles of a line    *)
(* end in which cell.                                                      *)
(***************************************************************************)
\* the places (1-based) of the tiles of a line, in their order
TilePlaces(l) ==
    SelectSeq([i \in 1..Len(l) |-> i], LAMBDA i : l[i] # 0)

\* the tiles t of the line l grouped from the wall at its end: two equal
\* neighbours make a group, each tile is in one group
RECURSIVE PairFromWall(_, _)
PairFromWall(l, t) ==
    IF Len(t) = 0 THEN <<>>
    ELSE IF Len(t) >= 2 /\ l[t[Len(t)]] = l[t[Len(t) - 1]]
         THEN Append(PairFromWall(l, SubSeq(t, 1, Len(t) - 2)),
                     <<t[Len(t) - 1], t[Len(t)]>>)
         ELSE Append(PairFromWall(l, SubSeq(t, 1, Len(t) - 1)), <<t[Len(t)]>>)

NoTile == [value |-> 0, added |-> FALSE, moved |-> FALSE]

\* the cell that holds the group grp of the line l at place p: merged when
\* the group is a pair, moved when it is a pair or its tile came from
\* another place
GroupCell(l, grp, p) ==
    [value |-> IF Len(grp) = 2 THEN l[grp[1]] + l[grp[2]] ELSE l[grp[1]],
     added |-> Len(grp) = 2,
     moved |-> Len(grp) = 2 \/ grp[1] # p]

\* the groups g of the line l put against the wall, empty cells before them
GroupsAtWall(l, g) ==
    [p \in 1..Len(l) |->
        IF p <= Len(l) - Len(g) THEN NoTile
        ELSE GroupCell(l, g[p - (Len(l) - Len(g))], p)]

\* value, merged and moved of every cell of a line after its reduction
ClassicCells(l) == GroupsAtWall(l, PairFromWall(l, TilePlaces(l)))

\* the same for every cell of a grid of values moved in direction d
DirectCells(v, d) ==
    Placed([i \in 1..NumLines(v, d) |-> ClassicCells(Line(v, d, i))],
           d, Len(v[1]), Len(v))

\* a row of which only the first p cells were reduced, as a line of p cells
ReducedPrefix(row, p, reduced) ==
    [x \in 1..Len(row) |->
        IF x <= p THEN reduced[x] ELSE [NoTile EXCEPT !.value = row[x]]]

\* the cells a move that raised leaves, in the rotated grid f it worked in:
\* with height > width every row is reduced in its first width cells before
\* the row index runs out; with width > height nothing is
RaisedCells(f, p) ==
    [y \in 1..Len(f) |->
        ReducedPrefix(f[y], p, ClassicCells(SubSeq(f[y], 1, p)))]

\* value, merged and moved of every cell after the shift phase of the last
\* move
ShiftedCells ==
    IF pc = "raised"
    THEN RaisedCells(Values(ShiftFrame(last.before)),
                     IF height > width THEN width ELSE 0)
    ELSE DirectCells(Values(last.before), last.dir)

\* the cells of the grid m have the flags of the cells of e, but for the
\* spawned ones, which have no other flag and were empty after the shift
FlagsAre(m, e) ==
    \A c \in Cells(m) :
        IF m[c[1]][c[2]].new
        THEN /\ last.shifted[c[1]][c[2]].value = 0
             /\ m[c[1]][c[2]].value \in {2, 4}
             /\ ~m[c[1]][c[2]].moved
             /\ ~m[c[1]][c[2]].added
        ELSE /\ m[c[1]][c[2]].moved = e[c[1]][c[2]].moved
             /\ m[c[1]][c[2]].added = e[c[1]][c[2]].added

\* C14: at the end of every move no flag of an earlier move or of the
\* construction is left: at most one cell has the spawned flag, the cell this
\* move filled, and the merged and moved flags are on the cells, and only on
\* the cells, that received a slide or a merge in this move.
C14_NoFlagSurvives ==
    Moved =>
        /\ Spawned(matrix) <= 1
        /\ Spawned(matrix) = 1 => has_moved(last.shifted)
        /\ FlagsAre(matrix, ShiftedCells)

\* C14 witness: a move that returned found a moved flag and a spawned flag
\* of the move before it, and left both cells without them.
C14_Witness ==
    /\ Moved /\ pc = "ready"
    /\ \E c \in Cells(matrix) :
          last.before[c[1]][c[2]].moved /\ ~matrix[c[1]][c[2]].moved
    /\ \E c \in Cells(matrix) :
          last.before[c[1]][c[2]].new /\ ~matrix[c[1]][c[2]].new

\* the grid is as Matrix(width, height) left it: no call was made
Fresh == last.kind = "init" /\ full = <<>>

\* C15: right after construction the score is 0, a grid of two cells or
\* more has exactly two non-empty cells and a grid of one cell has one,
\* each holding 2 or 4, and every other cell is empty.
C15_Construction ==
    Fresh =>
        /\ score = 0
        /\ Len(matrix) = height
        /\ \A y \in 1..height : Len(matrix[y]) = width
        /\ NonEmpty(matrix) = (IF width * height >= 2 THEN 2 ELSE 1)
        /\ \A c \in Cells(matrix) : matrix[c[1]][c[2]].value \in {0, 2, 4}

\* C15 witness: a fresh grid of six cells with a 2 and a 4.
C15_Witness ==
    /\ Fresh
    /\ width * height = 6
    /\ NonEmpty(matrix) = 2
    /\ \E c \in Cells(matrix) : matrix[c[1]][c[2]].value = 2
    /\ \E c \in Cells(matrix) : matrix[c[1]][c[2]].value = 4

\* the shift phase of a move on the grid m returned and left every value,
\* every moved flag and the score as they were: the move spawns nothing
ShiftIsNoOp(shifted, m, sc) ==
    /\ ~shifted.raised
    /\ Values(shifted.matrix) = Values(m)
    /\ ~has_moved(shifted.matrix)
    /\ shifted.score = sc

AllMovesAreNoOps ==
    \A d \in Direction :
        ShiftIsNoOp(shift_phase(matrix, score, width, height, d), matrix, score)

\* C16: on every grid reached from construction is_full() is true if and
\* only if move is a no-op (no value changed, nothing spawned) in all four
\* directions; a move on a grid on which is_full() is true returns and
\* leaves the grid unchanged, is_full() still true.
C16_TerminalIffNoMove ==
    /\ pc = "ready" => (is_full(matrix, width, height) <=> AllMovesAreNoOps)
    /\ (Moved /\ is_full(last.before, width, height)) =>
            /\ pc = "ready"
            /\ Values(matrix) = Values(last.before)
            /\ Spawned(matrix) = 0
            /\ score = last.beforeScore
            /\ is_full(matrix, width, height)

\* the part of C16 the code keeps: the same, on the square grids
SquareGrid_TerminalIffNoMove ==
    width = height => C16_TerminalIffNoMove

\* a move was made on a square grid of four cells on which is_full() was true
SquareGrid_TerminalMoved ==
    Moved /\ width = 2 /\ height = 2 /\ is_full(last.before, width, height)

\* C17: within one move a merged cell takes part in no other merge and
\* slides no further: after the shift phase every cell has the value and
\* the merged flag the classic reduction gives it, each tile in one group,
\* so a merged cell holds twice the value of a tile of the grid before.
C17_MergedOnce ==
    Moved =>
        \A c \in Cells(last.shifted) :
            /\ last.shifted[c[1]][c[2]].value = ShiftedCells[c[1]][c[2]].value
            /\ last.shifted[c[1]][c[2]].added = ShiftedCells[c[1]][c[2]].added
            /\ last.shifted[c[1]][c[2]].added =>
                  \E b \in Cells(last.before) :
                      /\ last.before[b[1]][b[2]].value # 0
                      /\ last.shifted[c[1]][c[2]].value =
                            2 * last.before[b[1]][b[2]].value

\* C17 witness: the row 4,2,2 moved RIGHT became 0,4,4: the merged 4 stayed
\* where it merged and the 4 that slid against it did not merge with it.
C17_Witness ==
    /\ Moved /\ pc = "ready" /\ last.dir = "RIGHT" /\ height = 1
    /\ RowValues(last.before[1]) = <<4, 2, 2>>
    /\ RowValues(last.shifted[1]) = <<0, 4, 4>>
    /\ last.shifted[1][3].added
    /\ ~last.shifted[1][2].added

\* the direction an arrow key stands for
ArrowOf(key) ==
    CASE key = "KEY_UP"    -> "UP"
      [] key = "KEY_DOWN"  -> "DOWN"
      [] key = "KEY_RIGHT" -> "RIGHT"
      [] key = "KEY_LEFT"  -> "LEFT"
      [] OTHER             -> "NONE"

\* the grid at the end of iteration i of the loop
GridAfter(i) == IF i < Len(calls) THEN calls[i + 1].before ELSE matrix

\* the last iteration applied one move in the direction of its key to the
\* grid it found: the direct slide, then one spawn if a value changed
OneMoveApplied(it) ==
    /\ last.kind = "move"
    /\ last.dir = it.direction
    /\ last.before = it.before
    /\ Values(last.shifted) = Direct(Values(it.before), it.direction)
    /\ IF Values(last.shifted) = Values(it.before)
       THEN matrix = last.shifted
       ELSE OneSpawn

LoopEnded ==
    /\ Len(calls) >= 1
    /\ calls[Len(calls)].key = "q" \/ NoMovePossible(Values(matrix))

\* C18: in the game loop, for every sequence of keys, an arrow key makes one
\* move in its direction and no other key makes a move; is_full() is called
\* after every key but q; the loop ends at the first iteration that leaves a
\* terminal grid, so no key is handled after is_full() returned true; q ends
\* the loop without a move; run returns (is_full() at the end, the score).
C18_LoopFollowsKeys ==
    /\ \A i \in 1..Len(calls) :
          /\ calls[i].direction = ArrowOf(calls[i].key)
          /\ calls[i].direction = "NONE" => GridAfter(i) = calls[i].before
          /\ IF calls[i].key = "q"
             THEN calls[i].checked = <<>>
             ELSE calls[i].checked = <<NoMovePossible(Values(GridAfter(i)))>>
          /\ i < Len(calls) =>
                /\ calls[i].key # "q"
                /\ ~NoMovePossible(Values(GridAfter(i)))
    /\ (Len(calls) >= 1 /\ calls[Len(calls)].direction # "NONE") =>
            OneMoveApplied(calls[Len(calls)])
    /\ IF LoopEnded
       THEN result = <<[game_over |-> NoMovePossible(Values(matrix)),
                        score |-> score]>>
       ELSE result = <<>>

\* C18 witness: the loop ended by itself at its third key, an arrow whose
\* move left a terminal grid, after a key that made no move.
C18_Witness ==
    /\ Len(calls) = 3
    /\ calls[3].direction # "NONE"
    /\ \E i \in 1..2 : calls[i].key = "other"
    /\ result = <<[game_over |-> TRUE, score |-> score]>>

\* the loop ended on q with a grid that is not terminal
QuitEndsLoop ==
    /\ Len(calls) >= 2
    /\ calls[Len(calls)].key = "q"
    /\ result = <<[game_over |-> FALSE, score |-> score]>>
    /\ score > 0

RECURSIVE IsPowerOfTwo(_)
IsPowerOfTwo(n) ==
    \/ n = 2
    \/ n > 2 /\ n % 2 = 0 /\ IsPowerOfTwo(n \div 2)

\* C19: in every state reached from construction by moves, every cell holds
\* 0 or a power of two that is at least 2.
C19_ValuesArePowersOfTwo ==
    \A c \in Cells(matrix) :
        matrix[c[1]][c[2]].value = 0 \/ IsPowerOfTwo(matrix[c[1]][c[2]].value)

\* C19 witness: a cell holds 8, the merge of two tiles of 4.
C19_Witness ==
    /\ Moved
    /\ \E c \in Cells(matrix) :
          matrix[c[1]][c[2]].value = 8 /\ matrix[c[1]][c[2]].added

\* sum of the values of all cells of a grid
SumAll(m) == SumOver(Cells(m), m)

\* sum of the values of the cells whose spawned flag is set
SpawnedSum(m) == SumOver({c \in Cells(m) : m[c[1]][c[2]].new}, m)

\* C20: the shift phase of a move keeps the sum of the cell values, for
\* every grid and direction; after a move that returned the sum is the sum
\* before plus the value, 2 or 4, of the one tile spawned when something
\* moved, and the sum before when nothing moved.
C20_SumConserved ==
    Moved =>
        /\ SumAll(last.shifted) = SumAll(last.before)
        /\ pc = "ready" =>
              IF has_moved(last.shifted)
              THEN /\ Spawned(matrix) = 1
                   /\ SpawnedSum(matrix) \in {2, 4}
                   /\ SumAll(matrix) = SumAll(last.before) + SpawnedSum(matrix)
              ELSE SumAll(matrix) = SumAll(last.before)

\* C20 witness: a move merged two pairs and spawned a 4: the sum grew by 4.
C20_Witness ==
    /\ Moved /\ pc = "ready"
    /\ Merged(last.shifted) = 2
    /\ SpawnedSum(matrix) = 4
    /\ SumAll(last.shifted) = SumAll(last.before)
    /\ SumAll(matrix) = SumAll(last.before) + 4

====
